---- MODULE Spec2Model ----
(***************************************************************************)
(* The request gatekeeper of sensor-api: the address allow-list, the       *)
(* per-address sliding-window rate limiter, credential verification and    *)
(* the admin role check of auth.py, and the copy of the gate that app.py   *)
(* installs on its routes.                                                 *)
(*                                                                         *)
(* Time is counted in whole clock ticks; several calls may read the same   *)
(* clock value.  Addresses are short dotted / colon-separated strings over *)
(* two-bit groups, so that parsing, masking and range membership are       *)
(* computed rather than assumed.                                           *)
(***************************************************************************)
EXTENDS Integers, Sequences, FiniteSets, TLC

\* ------------------------------------------------------------------ bounds

\* Largest MAX_REQUESTS / RATE_LIMIT_WINDOW the environment configures.
MaxRequestsCfg == 2
MaxWindowCfg == 2
\* Last clock value of a run of the gatekeeper / of the bare rate limiter.
MaxTime == 1
MaxTimeRL == 5
\* Last clock value of a run of concurrent rate-limiter calls.
MaxTimeConc == 1
\* Concurrent calls are started for an address while fewer than this many of its
\* admissions are on the log.
MaxAdmittedConc == 3
\* The largest clock value of the runs in which the clock also steps back.
MaxTimeBack == 3
\* The largest clock value of the runs that count denials.
MaxTimeBudget == 2
\* The largest clock value of the runs with several worker processes.
MaxTimeWorkers == 1

\* ------------------------------------------------------- address arithmetic

RECURSIVE Pow2(_)
Pow2(n) == IF n = 0 THEN 1 ELSE 2 * Pow2(n - 1)

\* An address is written as groups of two bits: two groups for IPv4 (a.b),
\* three for IPv6 (a:b:c), standing for the library's 4 octets and 8 hextets.
GroupBits == Pow2(1)
GroupsOf(version) == IF version = 4 THEN 2 ELSE 3
BitsOf(version) == GroupBits * GroupsOf(version)

RECURSIVE PackGroups(_, _)
PackGroups(parts, acc) ==
    IF parts = <<>> THEN acc
    ELSE PackGroups(Tail(parts), acc * Pow2(GroupBits) + Head(parts))

ParseError == [ok |-> FALSE, version |-> 0, ip |-> 0]

\* ipaddress.ip_address(s): an IPv4 address, else an IPv6 address, else ValueError.
ip_address(s) ==
    LET wellFormed(version) ==
            /\ Len(s.parts) = GroupsOf(version)
            /\ \A i \in 1..Len(s.parts) : s.parts[i] \in 0..(Pow2(GroupBits) - 1)
    IN  IF s.sep = "." /\ wellFormed(4)
        THEN [ok |-> TRUE, version |-> 4, ip |-> PackGroups(s.parts, 0)]
        ELSE IF s.sep = ":" /\ wellFormed(6)
        THEN [ok |-> TRUE, version |-> 6, ip |-> PackGroups(s.parts, 0)]
        ELSE ParseError

\* The host bits of v cleared under a prefix of plen bits.
MaskTo(v, plen, bits) == (v \div Pow2(bits - plen)) * Pow2(bits - plen)

NetworkError == [ok |-> FALSE, version |-> 0, network_address |-> 0, prefixlen |-> 0]

\* ipaddress.ip_network(expr, strict=False): host bits are masked off, a bad
\* address or an over-long prefix raises ValueError.
ip_network(expr) ==
    LET a == ip_address(expr.addr)
    IN  IF a.ok /\ expr.plen \in 0..BitsOf(a.version)
        THEN [ok |-> TRUE, version |-> a.version,
              network_address |-> MaskTo(a.ip, expr.plen, BitsOf(a.version)),
              prefixlen |-> expr.plen]
        ELSE NetworkError

\* `ip in allowed_range`: versions agree and the masked address is the network's.
InNetwork(ip, net) ==
    /\ ip.version = net.version
    /\ MaskTo(ip.ip, net.prefixlen, BitsOf(net.version)) = net.network_address

\* The load loop keeping a place in the list for an expression that does not
\* parse: a range no address is in.
RECURSIVE LoadRanges_KeepsInvalid(_)
LoadRanges_KeepsInvalid(exprs) ==
    IF exprs = <<>> THEN <<>>
    ELSE <<ip_network(Head(exprs))>> \o LoadRanges_KeepsInvalid(Tail(exprs))

\* The loop at module load: every expression of ALLOWED_IPS that parses is kept,
\* in order; one that does not is logged and skipped.
RECURSIVE LoadRanges(_)
LoadRanges(exprs) ==
    IF exprs = <<>> THEN <<>>
    ELSE LET n == ip_network(Head(exprs))
         IN  IF n.ok THEN <<n>> \o LoadRanges(Tail(exprs)) ELSE LoadRanges(Tail(exprs))


\* ------------------------------------------------------------ configuration

Addr4(a, b) == [sep |-> ".", parts |-> <<a, b>>]
Addr6(a, b, c) == [sep |-> ":", parts |-> <<a, b, c>>]
\* request.remote_addr when the transport supplies none.
NoAddr == [sep |-> "", parts |-> <<>>]
Range(a, plen) == [addr |-> a, plen |-> plen]

\* The values of ALLOWED_IPS the model is run under, already split on commas:
\* unset, one range, two ranges (the first with host bits set), a list with an
\* unparseable entry and an IPv6 range, and a list of unparseable entries only.
AllowedIpsEnvs ==
    { <<>>,
      << Range(Addr4(3, 2), 4) >>,
      << Range(Addr4(2, 1), 3), Range(Addr4(1, 3), 2) >>,
      << Range(Addr4(1, 7), 2), Range(Addr6(0, 1, 0), 4) >>,
      << Range(Addr4(9, 9), 2), Range(Addr4(1, 0), 5) >> }

\* The credentials environment: the four variables load_users reads ("" is
\* unset or empty, both falsy).
UserEnvs ==
    { [API_USERNAME |-> "admin", API_PASSWORD |-> "apw",
       VIEWER_USERNAME |-> "viewer", VIEWER_PASSWORD |-> "vpw"],
      [API_USERNAME |-> "admin", API_PASSWORD |-> "apw",
       VIEWER_USERNAME |-> "viewer", VIEWER_PASSWORD |-> ""],
      [API_USERNAME |-> "", API_PASSWORD |-> "",
       VIEWER_USERNAME |-> "", VIEWER_PASSWORD |-> ""] }

ROLE_ADMIN == "admin"
ROLE_VIEWER == "viewer"

NoUsers == [u \in {} |-> [password |-> "", role |-> ""]]

load_users(env) ==
    LET admins == IF env.API_USERNAME # "" /\ env.API_PASSWORD # ""
                  THEN env.API_USERNAME :> [password |-> env.API_PASSWORD, role |-> ROLE_ADMIN]
                  ELSE NoUsers
    IN  IF env.VIEWER_USERNAME # "" /\ env.VIEWER_PASSWORD # ""
        THEN (env.VIEWER_USERNAME :> [password |-> env.VIEWER_PASSWORD, role |-> ROLE_VIEWER])
             @@ admins
        ELSE admins


\* -------------------------------------------------------------------- state

VARIABLES
    allowed_ip_ranges,   \* auth.py: the networks loaded from ALLOWED_IPS
    USERS,               \* auth.py: username -> [password, role]
    MAX_REQUESTS,        \* int(os.environ.get('MAX_REQUESTS', 10))
    RATE_LIMIT_WINDOW,   \* int(os.environ.get('RATE_LIMIT_WINDOW', 60))
    request_history,     \* auth.py: address -> list of timestamps
    now,                 \* what time.time() returns
    last,                \* observer: the most recent call and what it returned
    admitted,            \* observer: per address, the admissions of the last RATE_LIMIT_WINDOW ticks
    limited_ever,        \* observer: the addresses a rate-limiter call has turned away
    API_USERNAME,        \* app.py: os.environ.get('API_USERNAME')
    API_PASSWORD,        \* app.py: os.environ.get('API_PASSWORD')
    app_request_history, \* app.py: its own address -> list of timestamps
    pc,                  \* per thread, the statement of is_rate_limited it is at
    loc,                 \* per thread, the locals of its is_rate_limited call
    worker_request_history, \* per gunicorn worker process, app.py's table in it
    denials              \* observer: per address, the 401 / admin-only 403 denials of the window

vars == <<allowed_ip_ranges, USERS, MAX_REQUESTS, RATE_LIMIT_WINDOW,
          request_history, now, last, admitted, limited_ever,
          API_USERNAME, API_PASSWORD, app_request_history, pc, loc,
          worker_request_history, denials>>

threads == <<pc, loc>>

\* What only the runs with several worker processes, and those that count
\* denials, change.
apart == <<worker_request_history, denials>>

\* app.py and auth.py each load ALLOWED_IPS, RATE_LIMIT_WINDOW and MAX_REQUESTS
\* from the one environment with the same statements, so one variable stands
\* for both modules' copy of each.
config == <<allowed_ip_ranges, USERS, MAX_REQUESTS, RATE_LIMIT_WINDOW,
            API_USERNAME, API_PASSWORD>>

\* What the statements of is_rate_limited in auth.py leave alone.
elsewhere == <<config, apart, now, last, app_request_history>>

\* ------------------------------------------------------------------ auth.py

RECURSIVE AnyRangeFrom(_, _, _)
AnyRangeFrom(ip, ranges, i) ==
    IF i > Len(ranges) THEN FALSE
    ELSE IF InNetwork(ip, ranges[i]) THEN TRUE
    ELSE AnyRangeFrom(ip, ranges, i + 1)

\* check_ip_allowed requiring every range to hold the address.
check_ip_allowed_EveryRange(ip_addr) ==
    IF allowed_ip_ranges = <<>> THEN TRUE
    ELSE LET ip == ip_address(ip_addr)
         IN  IF ~ip.ok THEN FALSE
             ELSE \A i \in DOMAIN allowed_ip_ranges : InNetwork(ip, allowed_ip_ranges[i])

\* check_ip_allowed letting an address through when it does not parse.
check_ip_allowed_FailOpen(ip_addr) ==
    IF allowed_ip_ranges = <<>> THEN TRUE
    ELSE LET ip == ip_address(ip_addr)
         IN  IF ~ip.ok THEN TRUE
             ELSE AnyRangeFrom(ip, allowed_ip_ranges, 1)

check_ip_allowed(ip_addr) ==
    IF allowed_ip_ranges = <<>> THEN TRUE
    ELSE LET ip == ip_address(ip_addr)
         IN  IF ~ip.ok THEN FALSE
             ELSE AnyRangeFrom(ip, allowed_ip_ranges, 1)

EmptyHistory == [a \in {} |-> <<>>]

\* A limiter that counts per fixed window: it keeps the timestamps of the
\* window of length RATE_LIMIT_WINDOW, aligned at 0, that t falls in.
Pruned_FixedWindow(stamps, t) ==
    SelectSeq(stamps, LAMBDA x : x \div RATE_LIMIT_WINDOW = t \div RATE_LIMIT_WINDOW)

\* Pruning against a window twice as long.
Pruned_TwiceWindow(stamps, t) ==
    SelectSeq(stamps, LAMBDA x : t - x < RATE_LIMIT_WINDOW + RATE_LIMIT_WINDOW)

\* Pruning by the distance between the timestamp and the clock, in either
\* direction.
Pruned_AbsAge(stamps, t) ==
    SelectSeq(stamps, LAMBDA x : t - x < RATE_LIMIT_WINDOW /\ x - t < RATE_LIMIT_WINDOW)

\* The timestamps the list comprehension keeps at time t.
Pruned(stamps, t) == SelectSeq(stamps, LAMBDA x : t - x < RATE_LIMIT_WINDOW)

\* is_rate_limited comparing with > where the code has >=.
is_rate_limited_OffByOne(h, ip_addr, t) ==
    LET h1 == IF ip_addr \notin DOMAIN h
              THEN (ip_addr :> <<>>) @@ h
              ELSE [h EXCEPT ![ip_addr] = Pruned(@, t)]
    IN  IF Len(h1[ip_addr]) > MAX_REQUESTS
        THEN [history |-> h1, limited |-> TRUE]
        ELSE [history |-> [h1 EXCEPT ![ip_addr] = Append(@, t)], limited |-> FALSE]

\* is_rate_limited that never drops an old timestamp.
is_rate_limited_NoPrune(h, ip_addr, t) ==
    LET h1 == IF ip_addr \notin DOMAIN h THEN (ip_addr :> <<>>) @@ h ELSE h
    IN  IF Len(h1[ip_addr]) >= MAX_REQUESTS
        THEN [history |-> h1, limited |-> TRUE]
        ELSE [history |-> [h1 EXCEPT ![ip_addr] = Append(@, t)], limited |-> FALSE]

\* is_rate_limited recording the timestamp of a call it limits as well.
is_rate_limited_RecordsLimited(h, ip_addr, t) ==
    LET h1 == IF ip_addr \notin DOMAIN h
              THEN (ip_addr :> <<>>) @@ h
              ELSE [h EXCEPT ![ip_addr] = Pruned(@, t)]
    IN  [history |-> [h1 EXCEPT ![ip_addr] = Append(@, t)],
         limited |-> Len(h1[ip_addr]) >= MAX_REQUESTS]

\* is_rate_limited sweeping the whole table on every call: each list is pruned
\* and an address left without a timestamp loses its entry.
is_rate_limited_SweepsTable(h, ip_addr, t) ==
    LET swept == [b \in { b \in DOMAIN h : Pruned(h[b], t) # <<>> } |-> Pruned(h[b], t)]
        h1 == IF ip_addr \notin DOMAIN swept THEN (ip_addr :> <<>>) @@ swept ELSE swept
    IN  IF Len(h1[ip_addr]) >= MAX_REQUESTS
        THEN [history |-> h1, limited |-> TRUE]
        ELSE [history |-> [h1 EXCEPT ![ip_addr] = Append(@, t)], limited |-> FALSE]

\* is_rate_limited on table h at clock value t: the table afterwards and the
\* value returned.
is_rate_limited(h, ip_addr, t) ==
    LET h1 == IF ip_addr \notin DOMAIN h
              THEN (ip_addr :> <<>>) @@ h
              ELSE [h EXCEPT ![ip_addr] = Pruned(@, t)]
    IN  IF Len(h1[ip_addr]) >= MAX_REQUESTS
        THEN [history |-> h1, limited |-> TRUE]
        ELSE [history |-> [h1 EXCEPT ![ip_addr] = Append(@, t)], limited |-> FALSE]

NoAuth == [present |-> FALSE, username |-> "", password |-> ""]
BasicAuth(u, p) == [present |-> TRUE, username |-> u, password |-> p]
NoUser == [username |-> "", role |-> ""]

\* authenticate_user looking the identifier up without regard to case.
authenticate_user_CaseFold(auth) ==
    LET lower(s) == CASE s \in {"Admin", "ADMIN"} -> "admin"
                      [] s \in {"Viewer", "VIEWER"} -> "viewer"
                      [] OTHER -> s
        username == lower(auth.username) IN
    IF ~auth.present THEN [authenticated |-> FALSE, user_data |-> NoUser]
    ELSE IF username \in DOMAIN USERS /\ USERS[username].password = auth.password
    THEN [authenticated |-> TRUE,
          user_data |-> [username |-> username, role |-> USERS[username].role]]
    ELSE [authenticated |-> FALSE, user_data |-> NoUser]

authenticate_user(auth) ==
    IF ~auth.present THEN [authenticated |-> FALSE, user_data |-> NoUser]
    ELSE IF auth.username \in DOMAIN USERS /\ USERS[auth.username].password = auth.password
    THEN [authenticated |-> TRUE,
          user_data |-> [username |-> auth.username, role |-> USERS[auth.username].role]]
    ELSE [authenticated |-> FALSE, user_data |-> NoUser]

\* The headers of a response: the value of WWW-Authenticate, "" without one.
NoChallenge == ""
BasicChallenge == "Basic realm=\"Sensor API\""

\* A line written through logger.warning: its text as in the f-string, and the
\* values put into it (an address for {ip_addr}, a name for the username).
Warning(text, ip_addrs, usernames) ==
    [level |-> "WARNING", text |-> text, ip_addrs |-> ip_addrs, usernames |-> usernames]

\* ErrorResponse attaching the challenge to every error.
ErrorResponse_AlwaysChallenge(status, error, challenge) ==
    [tuple |-> TRUE, status |-> status, error |-> error, challenge |-> BasicChallenge]

\* What a view returns: a (body, status[, headers]) tuple, or a bare value.
ErrorResponse(status, error, challenge) ==
    [tuple |-> TRUE, status |-> status, error |-> error, challenge |-> challenge]
\* The lambda requires_admin wraps returns None.
NoneValue == [tuple |-> FALSE, status |-> 0, error |-> "", challenge |-> NoChallenge]
\* The protected operation's own response, which the gate passes through.
ViewResponse == [tuple |-> FALSE, status |-> 200, error |-> "", challenge |-> NoChallenge]

\* requires_auth authenticating before it consults the rate limiter.
requires_auth_AuthFirst(req, h, t, fret) ==
    LET ip_addr == req.remote_addr IN
    IF ~check_ip_allowed(ip_addr)
    THEN [ret |-> ErrorResponse(403, "Access denied", NoChallenge), history |-> h,
          called |-> FALSE, user_data |-> NoUser, checks |-> <<"address">>,
          log |-> <<Warning("Blocked request from unauthorized IP: {ip_addr}",
                            <<ip_addr>>, <<>>)>>]
    ELSE LET au == authenticate_user(req.authorization) IN
         IF ~au.authenticated
         THEN [ret |-> ErrorResponse(401, "Authentication required", BasicChallenge),
               history |-> h, called |-> FALSE, user_data |-> NoUser,
               checks |-> <<"address", "authentication">>,
               log |-> <<Warning("Failed authentication attempt from {ip_addr}",
                                 <<ip_addr>>, <<>>)>>]
         ELSE LET rl == is_rate_limited(h, ip_addr, t) IN
              IF rl.limited
              THEN [ret |-> ErrorResponse(429, "Too many requests", NoChallenge),
                    history |-> rl.history, called |-> FALSE, user_data |-> NoUser,
                    checks |-> <<"address", "authentication", "rate">>,
                    log |-> <<Warning("Rate limited request from IP: {ip_addr}",
                                      <<ip_addr>>, <<>>)>>]
              ELSE [ret |-> fret, history |-> rl.history, called |-> TRUE,
                    user_data |-> au.user_data,
                    checks |-> <<"address", "authentication", "rate">>,
                    log |-> <<>>]

\* requires_auth consulting the rate limiter before the allow-list.
requires_auth_RateFirst(req, h, t, fret) ==
    LET ip_addr == req.remote_addr
        rl == is_rate_limited(h, ip_addr, t) IN
    IF rl.limited
    THEN [ret |-> ErrorResponse(429, "Too many requests", NoChallenge), history |-> rl.history,
          called |-> FALSE, user_data |-> NoUser, checks |-> <<"rate">>,
          log |-> <<Warning("Rate limited request from IP: {ip_addr}",
                            <<ip_addr>>, <<>>)>>]
    ELSE IF ~check_ip_allowed(ip_addr)
    THEN [ret |-> ErrorResponse(403, "Access denied", NoChallenge), history |-> rl.history,
          called |-> FALSE, user_data |-> NoUser, checks |-> <<"rate", "address">>,
          log |-> <<Warning("Blocked request from unauthorized IP: {ip_addr}",
                            <<ip_addr>>, <<>>)>>]
    ELSE LET au == authenticate_user(req.authorization) IN
         IF ~au.authenticated
         THEN [ret |-> ErrorResponse(401, "Authentication required", BasicChallenge),
               history |-> rl.history, called |-> FALSE, user_data |-> NoUser,
               checks |-> <<"rate", "address", "authentication">>,
               log |-> <<Warning("Failed authentication attempt from {ip_addr}",
                                 <<ip_addr>>, <<>>)>>]
         ELSE [ret |-> fret, history |-> rl.history, called |-> TRUE,
               user_data |-> au.user_data,
               checks |-> <<"rate", "address", "authentication">>,
               log |-> <<>>]

\* requires_auth turning away every principal but an Administrator.
requires_auth_AdminOnly(req, h, t, fret) ==
    LET ip_addr == req.remote_addr IN
    IF ~check_ip_allowed(ip_addr)
    THEN [ret |-> ErrorResponse(403, "Access denied", NoChallenge), history |-> h,
          called |-> FALSE, user_data |-> NoUser, checks |-> <<"address">>,
          log |-> <<Warning("Blocked request from unauthorized IP: {ip_addr}",
                            <<ip_addr>>, <<>>)>>]
    ELSE LET rl == is_rate_limited(h, ip_addr, t) IN
         IF rl.limited
         THEN [ret |-> ErrorResponse(429, "Too many requests", NoChallenge), history |-> rl.history,
               called |-> FALSE, user_data |-> NoUser, checks |-> <<"address", "rate">>,
               log |-> <<Warning("Rate limited request from IP: {ip_addr}",
                                 <<ip_addr>>, <<>>)>>]
         ELSE LET au == authenticate_user(req.authorization) IN
              IF ~au.authenticated
              THEN [ret |-> ErrorResponse(401, "Authentication required", BasicChallenge),
                    history |-> rl.history, called |-> FALSE, user_data |-> NoUser,
                    checks |-> <<"address", "rate", "authentication">>,
                    log |-> <<Warning("Failed authentication attempt from {ip_addr}",
                                      <<ip_addr>>, <<>>)>>]
              ELSE IF au.user_data.role # ROLE_ADMIN
              THEN [ret |-> ErrorResponse(403, "Access denied. Admin privileges required.",
                                          NoChallenge),
                    history |-> rl.history, called |-> FALSE, user_data |-> au.user_data,
                    checks |-> <<"address", "rate", "authentication">>,
                    log |-> <<Warning("Access denied: User {username} attempted to access admin-only resource",
                                      <<>>, <<au.user_data.username>>)>>]
              ELSE [ret |-> fret, history |-> rl.history, called |-> TRUE,
                    user_data |-> au.user_data,
                    checks |-> <<"address", "rate", "authentication">>,
                    log |-> <<>>]

\* requires_auth telling the caller why authentication failed.
requires_auth_NamesFailure(req, h, t, fret) ==
    LET ip_addr == req.remote_addr IN
    IF ~check_ip_allowed(ip_addr)
    THEN [ret |-> ErrorResponse(403, "Access denied", NoChallenge), history |-> h,
          called |-> FALSE, user_data |-> NoUser, checks |-> <<"address">>,
          log |-> <<Warning("Blocked request from unauthorized IP: {ip_addr}",
                            <<ip_addr>>, <<>>)>>]
    ELSE LET rl == is_rate_limited(h, ip_addr, t) IN
         IF rl.limited
         THEN [ret |-> ErrorResponse(429, "Too many requests", NoChallenge), history |-> rl.history,
               called |-> FALSE, user_data |-> NoUser, checks |-> <<"address", "rate">>,
               log |-> <<Warning("Rate limited request from IP: {ip_addr}",
                                 <<ip_addr>>, <<>>)>>]
         ELSE LET au == authenticate_user(req.authorization) IN
              IF ~au.authenticated
              THEN [ret |-> ErrorResponse(401,
                                          IF ~req.authorization.present
                                          THEN "Authentication required"
                                          ELSE IF req.authorization.username \notin DOMAIN USERS
                                          THEN "Unknown user"
                                          ELSE "Wrong password",
                                          BasicChallenge),
                    history |-> rl.history, called |-> FALSE, user_data |-> NoUser,
                    checks |-> <<"address", "rate", "authentication">>,
                    log |-> <<Warning("Failed authentication attempt from {ip_addr}",
                                      <<ip_addr>>, <<>>)>>]
              ELSE [ret |-> fret, history |-> rl.history, called |-> TRUE,
                    user_data |-> au.user_data,
                    checks |-> <<"address", "rate", "authentication">>,
                    log |-> <<>>]

\* decorated() of requires_auth around a function returning fret: the value
\* returned, the table afterwards, whether the wrapped function ran, the
\* user_data attached to the request, the checks evaluated, in order, and the
\* lines logged.
requires_auth(req, h, t, fret) ==
    LET ip_addr == req.remote_addr IN
    IF ~check_ip_allowed(ip_addr)
    THEN [ret |-> ErrorResponse(403, "Access denied", NoChallenge), history |-> h,
          called |-> FALSE, user_data |-> NoUser, checks |-> <<"address">>,
          log |-> <<Warning("Blocked request from unauthorized IP: {ip_addr}",
                            <<ip_addr>>, <<>>)>>]
    ELSE LET rl == is_rate_limited(h, ip_addr, t) IN
         IF rl.limited
         THEN [ret |-> ErrorResponse(429, "Too many requests", NoChallenge), history |-> rl.history,
               called |-> FALSE, user_data |-> NoUser, checks |-> <<"address", "rate">>,
               log |-> <<Warning("Rate limited request from IP: {ip_addr}",
                                 <<ip_addr>>, <<>>)>>]
         ELSE LET au == authenticate_user(req.authorization) IN
              IF ~au.authenticated
              THEN [ret |-> ErrorResponse(401, "Authentication required", BasicChallenge),
                    history |-> rl.history, called |-> FALSE, user_data |-> NoUser,
                    checks |-> <<"address", "rate", "authentication">>,
                    log |-> <<Warning("Failed authentication attempt from {ip_addr}",
                                      <<ip_addr>>, <<>>)>>]
              ELSE [ret |-> fret, history |-> rl.history, called |-> TRUE,
                    user_data |-> au.user_data,
                    checks |-> <<"address", "rate", "authentication">>,
                    log |-> <<>>]

\* requires_admin without its role check.
requires_admin_NoRoleCheck(req, h, t, fret) ==
    LET inner == requires_auth(req, h, t, NoneValue) IN
    IF inner.ret.tuple
    THEN inner
    ELSE [ret |-> fret, history |-> inner.history, called |-> TRUE,
          user_data |-> inner.user_data, checks |-> Append(inner.checks, "authorization"),
          log |-> inner.log]

\* requires_admin raising where it logs the refusal (the exception leaves the
\* decorator, and the server answers 500).
requires_admin_LogRaises(req, h, t, fret) ==
    LET inner == requires_auth(req, h, t, NoneValue) IN
    IF inner.ret.tuple
    THEN inner
    ELSE IF inner.user_data.role # ROLE_ADMIN
    THEN [ret |-> [tuple |-> FALSE, status |-> 500, error |-> "Internal Server Error",
                   challenge |-> NoChallenge],
          history |-> inner.history, called |-> FALSE, user_data |-> inner.user_data,
          checks |-> Append(inner.checks, "authorization"),
          log |-> inner.log]
    ELSE [ret |-> fret, history |-> inner.history, called |-> TRUE,
          user_data |-> inner.user_data, checks |-> Append(inner.checks, "authorization"),
          log |-> inner.log]

\* decorated() of requires_admin: requires_auth around a no-op, a tuple result
\* taken as failure, then the role check, then the wrapped function.
requires_admin(req, h, t, fret) ==
    LET inner == requires_auth(req, h, t, NoneValue) IN
    IF inner.ret.tuple
    THEN inner
    ELSE IF inner.user_data.role # ROLE_ADMIN
    THEN [ret |-> ErrorResponse(403, "Access denied. Admin privileges required.", NoChallenge),
          history |-> inner.history, called |-> FALSE, user_data |-> inner.user_data,
          checks |-> Append(inner.checks, "authorization"),
          log |-> Append(inner.log,
                         Warning("Access denied: User {username} attempted to access admin-only resource",
                                 <<>>, <<inner.user_data.username>>))]
    ELSE [ret |-> fret, history |-> inner.history, called |-> TRUE,
          user_data |-> inner.user_data, checks |-> Append(inner.checks, "authorization"),
          log |-> inner.log]


\* ------------------------------------------------------------------ requests

\* The addresses requests come from: one that parses (inside or outside the
\* configured ranges, as ALLOWED_IPS has it) and one that does not.
ClientAddrs == { Addr4(1, 2), NoAddr }

\* The Authorization headers requests carry.
Credentials ==
    { NoAuth, BasicAuth("admin", "apw"), BasicAuth("viewer", "vpw"),
      BasicAuth("admin", "vpw"), BasicAuth("ghost", "apw") }

Requests == [remote_addr : ClientAddrs, authorization : Credentials]

NoRequest == [remote_addr |-> NoAddr, authorization |-> NoAuth]
\* last: the operation called, its request, the value returned, whether the
\* protected function ran, the checks evaluated, the rate limiter's answer, and
\* whether the address's budget was already used up when the call began.
NoCall == [op |-> "none", req |-> NoRequest, ret |-> NoneValue, called |-> FALSE,
           user_data |-> NoUser, checks |-> <<>>, limited |-> FALSE,
           over_budget |-> FALSE,
           log |-> <<>>]

\* The recorded timestamps of ip_addr in table h that are younger than the
\* window at time t, counted one by one.
InWindow(h, ip_addr, t) ==
    IF ip_addr \notin DOMAIN h THEN {}
    ELSE { i \in DOMAIN h[ip_addr] : t - h[ip_addr][i] < RATE_LIMIT_WINDOW }

OverBudget(h, ip_addr, t) == Cardinality(InWindow(h, ip_addr, t)) >= MAX_REQUESTS

NoteLimited(ip_addr, limited) ==
    IF limited THEN limited_ever \cup {ip_addr} ELSE limited_ever

\* The observer's log of admissions, kept apart from the table: a call that was
\* admitted at t is logged under its address, and an entry leaves the log when
\* the clock has moved RATE_LIMIT_WINDOW ticks past it (so at any moment the log
\* holds the admissions of the window of the last RATE_LIMIT_WINDOW clock values).
Admit(ip_addr, limited, t) ==
    IF limited THEN admitted
    ELSE IF ip_addr \in DOMAIN admitted
    THEN [admitted EXCEPT ![ip_addr] = Append(@, t)]
    ELSE (ip_addr :> <<t>>) @@ admitted

Expire(t) ==
    [a \in DOMAIN admitted |->
        SelectSeq(admitted[a], LAMBDA x : x + RATE_LIMIT_WINDOW > t)]

\* The server's threads, each serving one request at a time.
Threads == {1, 2}
NoLocals == [ip_addr |-> NoAddr, now |-> 0, kept |-> <<>>]

\* gunicorn forks multiprocessing.cpu_count() * 2 + 1 worker processes, three
\* at the least; two of them.
WorkerProcs == {1, 2}

Init ==
    /\ limited_ever = {}
    /\ pc = [t \in Threads |-> "idle"]
    /\ loc = [t \in Threads |-> NoLocals]
    /\ \E e \in AllowedIpsEnvs : allowed_ip_ranges = LoadRanges(e)
    /\ \E env \in UserEnvs :
           /\ USERS = load_users(env)
           /\ API_USERNAME = env.API_USERNAME
           /\ API_PASSWORD = env.API_PASSWORD
    /\ app_request_history = EmptyHistory
    /\ MAX_REQUESTS \in 1..MaxRequestsCfg
    /\ RATE_LIMIT_WINDOW \in 1..MaxWindowCfg
    /\ request_history = EmptyHistory
    /\ now = 0
    /\ last = NoCall
    /\ admitted = EmptyHistory
    /\ worker_request_history = [w \in WorkerProcs |-> EmptyHistory]
    /\ denials = EmptyHistory

\* One request to an operation protected by requires_auth.
AuthCall(req) ==
    \E r \in { requires_auth(req, request_history, now, ViewResponse) } :
    /\ request_history' = r.history
    /\ last' = [op |-> "requires_auth", req |-> req, ret |-> r.ret, called |-> r.called,
                user_data |-> r.user_data, checks |-> r.checks,
                limited |-> (r.ret.status = 429),
                over_budget |-> OverBudget(request_history, req.remote_addr, now),
                log |-> r.log]
    /\ admitted' = Admit(req.remote_addr, Len(r.checks) < 2 \/ r.ret.status = 429, now)
    /\ limited_ever' = NoteLimited(req.remote_addr, r.ret.status = 429)
    /\ UNCHANGED <<config, now, app_request_history, threads>>

\* One request to an operation protected by requires_admin.
AdminCall(req) ==
    \E r \in { requires_admin(req, request_history, now, ViewResponse) } :
    /\ request_history' = r.history
    /\ last' = [op |-> "requires_admin", req |-> req, ret |-> r.ret, called |-> r.called,
                user_data |-> r.user_data, checks |-> r.checks,
                limited |-> (r.ret.status = 429),
                over_budget |-> OverBudget(request_history, req.remote_addr, now),
                log |-> r.log]
    /\ admitted' = Admit(req.remote_addr, Len(r.checks) < 2 \/ r.ret.status = 429, now)
    /\ limited_ever' = NoteLimited(req.remote_addr, r.ret.status = 429)
    /\ UNCHANGED <<config, now, app_request_history, threads>>

AuthRequest(req) == AuthCall(req) /\ UNCHANGED apart

AdminRequest(req) == AdminCall(req) /\ UNCHANGED apart

\* The clock advances; the response of the last call has been delivered.
Tick ==
    /\ now < MaxTime
    /\ now' = now + 1
    /\ last' = NoCall
    /\ admitted' = Expire(now + 1)
    /\ UNCHANGED <<config, apart, request_history, limited_ever, app_request_history, threads>>

Next ==
    \/ \E req \in Requests : AuthRequest(req)
    \/ \E req \in Requests : AdminRequest(req)
    \/ Tick

Spec == Init /\ [][Next]_vars

\* ------------------------------------------------- the rate limiter on its own

\* The addresses the bare rate limiter is called with.
LimiterAddrs == { Addr4(1, 2), Addr4(2, 1) }

\* One call of is_rate_limited(ip_addr).
RateCall(ip_addr) ==
    \E r \in { is_rate_limited(request_history, ip_addr, now) } :
    /\ request_history' = r.history
    /\ last' = [NoCall EXCEPT !.op = "is_rate_limited",
                              !.req = [remote_addr |-> ip_addr, authorization |-> NoAuth],
                              !.limited = r.limited,
                              !.over_budget = OverBudget(request_history, ip_addr, now)]
    /\ admitted' = Admit(ip_addr, r.limited, now)
    /\ limited_ever' = NoteLimited(ip_addr, r.limited)
    /\ UNCHANGED <<config, apart, now, app_request_history, threads>>

TickRL ==
    /\ now < MaxTimeRL
    /\ now' = now + 1
    /\ last' = NoCall
    /\ admitted' = Expire(now + 1)
    /\ UNCHANGED <<config, apart, request_history, limited_ever, app_request_history, threads>>

\* The rate limiter's configuration alone varies; no allow-list, one user set.
InitRL ==
    /\ Init
    /\ allowed_ip_ranges = <<>>
    /\ \A env \in UserEnvs : DOMAIN load_users(env) \subseteq DOMAIN USERS

NextRL ==
    \/ \E a \in LimiterAddrs : RateCall(a)
    \/ TickRL

SpecRL == InitRL /\ [][NextRL]_vars


\* ------------------------------------------ the rate limiter, clock stepping back

\* time.time() is the wall clock: it moves forward, and it is set back when the
\* system clock is adjusted.
TickBack ==
    /\ now < MaxTimeBack
    /\ now' = now + 1
    /\ last' = NoCall
    /\ admitted' = Expire(now + 1)
    /\ UNCHANGED <<config, apart, request_history, limited_ever, app_request_history, threads>>

ClockBack ==
    /\ now > 0
    /\ now' = now - 1
    /\ last' = NoCall
    /\ UNCHANGED <<config, apart, request_history, admitted, limited_ever, app_request_history,
                   threads>>

\* One address calls; what the clock does to one list it does to any.
BackAddrs == { Addr4(1, 2) }

NextBack ==
    \/ \E a \in BackAddrs : RateCall(a)
    \/ TickBack
    \/ ClockBack

SpecBack == InitRL /\ [][NextBack]_vars

\* --------------------------------------------- the gate, denials counted

\* The requests of these runs: one address, every Authorization header.
BudgetRequests == [remote_addr : { Addr4(1, 2) }, authorization : Credentials]

\* The observer's count: a call that got past the rate check and was then
\* turned away (401, or the 403 of the role check) is logged under its address
\* at its clock value, and leaves the log as an admission does.
NoteDenial(l, t) ==
    IF l.called \/ Len(l.checks) < 3 THEN denials
    ELSE IF l.req.remote_addr \in DOMAIN denials
    THEN [denials EXCEPT ![l.req.remote_addr] = Append(@, t)]
    ELSE (l.req.remote_addr :> <<t>>) @@ denials

CountedAuthRequest(req) ==
    /\ AuthCall(req)
    /\ denials' = NoteDenial(last', now)
    /\ UNCHANGED worker_request_history

CountedAdminRequest(req) ==
    /\ AdminCall(req)
    /\ denials' = NoteDenial(last', now)
    /\ UNCHANGED worker_request_history

TickBudget ==
    /\ now < MaxTimeBudget
    /\ now' = now + 1
    /\ last' = NoCall
    /\ admitted' = Expire(now + 1)
    /\ denials' = [a \in DOMAIN denials |->
                       SelectSeq(denials[a], LAMBDA x : x + RATE_LIMIT_WINDOW > now + 1)]
    /\ UNCHANGED <<config, request_history, limited_ever, app_request_history, threads,
                   worker_request_history>>

NextBudget ==
    \/ \E req \in BudgetRequests : CountedAuthRequest(req)
    \/ \E req \in BudgetRequests : CountedAdminRequest(req)
    \/ TickBudget

SpecBudget == InitRL /\ [][NextBudget]_vars

\* ------------------------------------- is_rate_limited, statement by statement

\* Nothing in the code orders two threads inside is_rate_limited: each statement
\* below is one step, and the steps of different threads interleave freely.

ConcAddrs == { Addr4(1, 2) }

\* now = time.time()
Enter(t, ip_addr) ==
    /\ pc[t] = "idle"
    /\ ip_addr \in DOMAIN admitted => Len(admitted[ip_addr]) < MaxAdmittedConc
    /\ loc' = [loc EXCEPT ![t] = [ip_addr |-> ip_addr, now |-> now, kept |-> <<>>]]
    /\ pc' = [pc EXCEPT ![t] = "test"]
    /\ UNCHANGED <<elsewhere, request_history, admitted, limited_ever>>

\* if ip_addr not in request_history:
TestKnown(t) ==
    /\ pc[t] = "test"
    /\ pc' = [pc EXCEPT ![t] = IF loc[t].ip_addr \notin DOMAIN request_history
                               THEN "init" ELSE "filter"]
    /\ UNCHANGED <<elsewhere, request_history, admitted, limited_ever, loc>>

\* request_history[ip_addr] = []
InitEntry(t) ==
    /\ pc[t] = "init"
    /\ request_history' =
           IF loc[t].ip_addr \in DOMAIN request_history
           THEN [request_history EXCEPT ![loc[t].ip_addr] = <<>>]
           ELSE (loc[t].ip_addr :> <<>>) @@ request_history
    /\ pc' = [pc EXCEPT ![t] = "check"]
    /\ UNCHANGED <<elsewhere, admitted, limited_ever, loc>>

\* [t for t in request_history[ip_addr] if now - t < RATE_LIMIT_WINDOW]
Filter(t) ==
    /\ pc[t] = "filter"
    /\ loc' = [loc EXCEPT ![t].kept =
                   SelectSeq(request_history[loc[t].ip_addr],
                             LAMBDA x : loc[t].now - x < RATE_LIMIT_WINDOW)]
    /\ pc' = [pc EXCEPT ![t] = "store"]
    /\ UNCHANGED <<elsewhere, request_history, admitted, limited_ever>>

\* request_history[ip_addr] = <the filtered list>
Store(t) ==
    /\ pc[t] = "store"
    /\ request_history' = [request_history EXCEPT ![loc[t].ip_addr] = loc[t].kept]
    /\ pc' = [pc EXCEPT ![t] = "check"]
    /\ UNCHANGED <<elsewhere, admitted, limited_ever, loc>>

\* if len(request_history[ip_addr]) >= MAX_REQUESTS: return True
CheckLimit(t) ==
    /\ pc[t] = "check"
    /\ IF Len(request_history[loc[t].ip_addr]) >= MAX_REQUESTS
       THEN /\ pc' = [pc EXCEPT ![t] = "idle"]
            /\ loc' = [loc EXCEPT ![t] = NoLocals]
            /\ limited_ever' = NoteLimited(loc[t].ip_addr, TRUE)
       ELSE /\ pc' = [pc EXCEPT ![t] = "append"]
            /\ UNCHANGED <<loc, limited_ever>>
    /\ UNCHANGED <<elsewhere, request_history, admitted>>

\* request_history[ip_addr].append(now); return False
AppendNow(t) ==
    /\ pc[t] = "append"
    /\ request_history' = [request_history EXCEPT ![loc[t].ip_addr] = Append(@, loc[t].now)]
    /\ admitted' = Admit(loc[t].ip_addr, FALSE, loc[t].now)
    /\ pc' = [pc EXCEPT ![t] = "idle"]
    /\ loc' = [loc EXCEPT ![t] = NoLocals]
    /\ UNCHANGED <<elsewhere, limited_ever>>

TickConc ==
    /\ now < MaxTimeConc
    /\ now' = now + 1
    /\ admitted' = Expire(now + 1)
    /\ UNCHANGED <<config, apart, request_history, last, limited_ever, app_request_history, threads>>

NextConc ==
    \/ \E t \in Threads, a \in ConcAddrs : Enter(t, a)
    \/ \E t \in Threads : TestKnown(t)
    \/ \E t \in Threads : InitEntry(t)
    \/ \E t \in Threads : Filter(t)
    \/ \E t \in Threads : Store(t)
    \/ \E t \in Threads : CheckLimit(t)
    \/ \E t \in Threads : AppendNow(t)
    \/ TickConc

SpecConc == InitRL /\ [][NextConc]_vars


\* ------------------------------------------------------------------- app.py

\* app.py's own check_ip_allowed and is_rate_limited: the text of auth.py's.
app_check_ip_allowed(ip_addr) == check_ip_allowed(ip_addr)
app_is_rate_limited(h, ip_addr, t) == is_rate_limited(h, ip_addr, t)

\* decorated() of app.py's requires_auth: the same address and rate checks,
\* then the credential compared with API_USERNAME / API_PASSWORD.
app_requires_auth(req, h, t, fret) ==
    LET ip_addr == req.remote_addr IN
    IF ~app_check_ip_allowed(ip_addr)
    THEN [ret |-> ErrorResponse(403, "Access denied", NoChallenge), history |-> h,
          called |-> FALSE, user_data |-> NoUser, checks |-> <<"address">>,
          log |-> <<Warning("Blocked request from unauthorized IP: {ip_addr}",
                            <<ip_addr>>, <<>>)>>]
    ELSE LET rl == app_is_rate_limited(h, ip_addr, t)
             auth == req.authorization IN
         IF rl.limited
         THEN [ret |-> ErrorResponse(429, "Too many requests", NoChallenge), history |-> rl.history,
               called |-> FALSE, user_data |-> NoUser, checks |-> <<"address", "rate">>,
               log |-> <<Warning("Rate limited request from IP: {ip_addr}",
                                 <<ip_addr>>, <<>>)>>]
         ELSE IF ~auth.present \/ auth.username # API_USERNAME \/ auth.password # API_PASSWORD
         THEN [ret |-> ErrorResponse(401, "Authentication required", BasicChallenge),
               history |-> rl.history, called |-> FALSE, user_data |-> NoUser,
               checks |-> <<"address", "rate", "authentication">>,
               log |-> <<Warning("Failed authentication attempt from {ip_addr}",
                                 <<ip_addr>>, <<>>)>>]
         ELSE [ret |-> fret, history |-> rl.history, called |-> TRUE, user_data |-> NoUser,
               checks |-> <<"address", "rate", "authentication">>,
               log |-> <<>>]

\* The rules of the application's routes.
Rules ==
    {"/measure", "/readings", "/readings/<period>", "/graph", "/graph/<path:filename>", "/"}
\* The rules whose view function carries @requires_auth.
DecoratedRules ==
    {"/measure", "/readings", "/readings/<period>", "/graph/<path:filename>", "/"}

\* A request to a decorated route: the view function runs behind the gate.
DecoratedRoute(req) ==
    \E r \in { app_requires_auth(req, app_request_history, now, ViewResponse) } :
    \E rule \in DecoratedRules :
        /\ app_request_history' = r.history
        /\ last' = [op |-> rule, req |-> req, ret |-> r.ret, called |-> r.called,
                    user_data |-> r.user_data, checks |-> r.checks,
                    limited |-> (r.ret.status = 429),
                    over_budget |-> OverBudget(app_request_history, req.remote_addr, now),
                    log |-> r.log]
        /\ admitted' = Admit(req.remote_addr, Len(r.checks) < 2 \/ r.ret.status = 429, now)
        /\ limited_ever' = NoteLimited(req.remote_addr, r.ret.status = 429)
        /\ UNCHANGED <<config, apart, now, request_history, threads>>

\* A request to /graph: view_graphs is registered as it is and runs at once.
ViewGraphs(req) ==
    /\ last' = [op |-> "/graph", req |-> req, ret |-> ViewResponse, called |-> TRUE,
                user_data |-> NoUser, checks |-> <<>>, limited |-> FALSE,
                over_budget |-> OverBudget(app_request_history, req.remote_addr, now),
                log |-> <<>>]
    /\ UNCHANGED <<config, apart, now, request_history, app_request_history, admitted,
                   limited_ever, threads>>

TickApp ==
    /\ now < MaxTime
    /\ now' = now + 1
    /\ last' = NoCall
    /\ admitted' = Expire(now + 1)
    /\ UNCHANGED <<config, apart, request_history, limited_ever, app_request_history, threads>>

NextApp ==
    \/ \E req \in Requests : DecoratedRoute(req)
    \/ \E req \in Requests : ViewGraphs(req)
    \/ TickApp

SpecApp == Init /\ [][NextApp]_vars

\* ------------------------------------------- app.py under gunicorn's workers

\* The requests of these runs: one address, with the administrator's
\* credentials or none.
WorkerRequests ==
    [remote_addr : { Addr4(1, 2) }, authorization : { NoAuth, BasicAuth("admin", "apw") }]

\* A request to a decorated route, accepted by worker process w: the gate runs
\* on the request_history of that process's own import of app.py.
WorkerRequest(w, req) ==
    \E r \in { app_requires_auth(req, worker_request_history[w], now, ViewResponse) } :
    \E rule \in DecoratedRules :
        /\ worker_request_history' = [worker_request_history EXCEPT ![w] = r.history]
        /\ last' = [op |-> rule, req |-> req, ret |-> r.ret, called |-> r.called,
                    user_data |-> r.user_data, checks |-> r.checks,
                    limited |-> (r.ret.status = 429),
                    over_budget |-> OverBudget(worker_request_history[w], req.remote_addr,
                                               now),
                    log |-> r.log]
        /\ admitted' = Admit(req.remote_addr, Len(r.checks) < 2 \/ r.ret.status = 429, now)
        /\ limited_ever' = NoteLimited(req.remote_addr, r.ret.status = 429)
        /\ UNCHANGED <<config, denials, now, request_history, app_request_history, threads>>

TickWorkers ==
    /\ now < MaxTimeWorkers
    /\ now' = now + 1
    /\ last' = NoCall
    /\ admitted' = Expire(now + 1)
    /\ UNCHANGED <<config, apart, request_history, limited_ever, app_request_history,
                   threads>>

NextWorkers ==
    \/ \E w \in WorkerProcs : \E req \in WorkerRequests : WorkerRequest(w, req)
    \/ TickWorkers

SpecWorkers == InitRL /\ [][NextWorkers]_vars

\* =================================================================== claims

GateOps == {"requires_auth", "requires_admin"}

\* The Decision a returned value stands for.
Decision(l) ==
    IF l.called THEN "Permit"
    ELSE IF l.ret.status = 429 THEN "RateLimited"
    ELSE IF l.ret.status = 401 THEN "Unauthenticated"
    ELSE IF l.ret.status = 403 /\ l.ret.error = "Access denied" THEN "AddressNotAllowed"
    ELSE IF l.ret.status = 403 THEN "Forbidden"
    ELSE "None"

\* The addresses of a network, as the interval from its first to its last.
Covers(net, ip) ==
    /\ ip.version = net.version
    /\ net.network_address <= ip.ip
    /\ ip.ip <= net.network_address + Pow2(BitsOf(net.version) - net.prefixlen) - 1

InSomeRange(a) ==
    /\ ip_address(a).ok
    /\ \E i \in DOMAIN allowed_ip_ranges : Covers(allowed_ip_ranges[i], ip_address(a))

PermittedAddress(a) == allowed_ip_ranges = <<>> \/ InSomeRange(a)

ValidCredential(auth) ==
    /\ auth.present
    /\ \E u \in DOMAIN USERS : u = auth.username /\ USERS[u].password = auth.password

IsAdministrator(auth) ==
    \E u \in DOMAIN USERS : u = auth.username /\ USERS[u].role = ROLE_ADMIN

\* The first check, in the order address, rate, authentication, authorization,
\* that the request of call l fails; "Permit" when it fails none.
FirstFailure(l) ==
    IF ~PermittedAddress(l.req.remote_addr) THEN "AddressNotAllowed"
    ELSE IF l.over_budget THEN "RateLimited"
    ELSE IF ~ValidCredential(l.req.authorization) THEN "Unauthenticated"
    ELSE IF l.op = "requires_admin" /\ ~IsAdministrator(l.req.authorization) THEN "Forbidden"
    ELSE "Permit"

CheckOrder == <<"address", "rate", "authentication", "authorization">>

\* C1: every call of requires_auth / requires_admin evaluates its checks in the
\* order address, rate limit, authentication, (admin only) authorization, and
\* returns the Deny reason of the first check the request fails: AddressNotAllowed
\* wins over RateLimited and Unauthenticated, RateLimited wins over Unauthenticated.
C1_FixedOrderFirstFailure ==
    last.op \in GateOps =>
        /\ Len(last.checks) \in 1..Len(CheckOrder)
        /\ last.checks = SubSeq(CheckOrder, 1, Len(last.checks))
        /\ Decision(last) = FirstFailure(last)

\* A request over its rate budget that also carries bad credentials was denied
\* RateLimited.
C1_Witness ==
    /\ last.op \in GateOps
    /\ last.over_budget
    /\ ~ValidCredential(last.req.authorization)
    /\ Decision(last) = "RateLimited"

\* C2: the operation behind requires_auth runs exactly when the address is
\* permitted, the rate limiter admitted the request and the credential
\* authenticated; the one behind requires_admin exactly when, in addition, the
\* principal is an Administrator.  Otherwise it does not run.
C2_InvokedOnlyWhenCleared ==
    last.op \in GateOps =>
        (last.called <=>
            /\ PermittedAddress(last.req.remote_addr)
            /\ ~last.over_budget
            /\ ValidCredential(last.req.authorization)
            /\ (last.op = "requires_admin" => IsAdministrator(last.req.authorization)))

\* An admin-only operation ran for an Administrator.
C2_Witness ==
    /\ last.op = "requires_admin"
    /\ last.called
    /\ last.user_data.role = ROLE_ADMIN


\* C7: a request denied by the allow-list never reaches the rate limiter: the
\* step that returns Deny(AddressNotAllowed) leaves the whole request_history
\* table as it was, the set of addresses that have an entry included.
C7_AllowListDenialLeavesTable ==
    [][ (last'.op \in GateOps /\ Decision(last') = "AddressNotAllowed")
            => /\ request_history' = request_history
               /\ DOMAIN request_history' = DOMAIN request_history ]_vars

\* An address was denied by the allow-list while another address has recorded
\* timestamps, and the denied address has no entry.
C7_Witness ==
    /\ last.op \in GateOps
    /\ Decision(last) = "AddressNotAllowed"
    /\ last.req.remote_addr \notin DOMAIN request_history
    /\ \E a \in DOMAIN request_history : request_history[a] # <<>>

\* The addresses the allow-list is probed with: inside and outside the
\* configured IPv4 ranges, IPv6 addresses whose number falls inside an IPv4
\* range, an address inside the IPv6 range, and strings that are no address.
ProbeAddrs ==
    { Addr4(a, b) : a \in 0..3, b \in 0..3 }
        \cup { Addr6(0, 1, 2), Addr6(0, 3, 2), Addr6(0, 1, 0), Addr6(2, 0, 0) }
        \cup { NoAddr, Addr4(1, 7), [sep |-> ".", parts |-> <<1>>],
               [sep |-> ".", parts |-> <<1, 2, 3>>], [sep |-> ":", parts |-> <<1, 2>>] }

\* C9: check_ip_allowed is true of every address when no range is configured;
\* with ranges configured it is true exactly of the addresses that lie inside
\* at least one of them.
C9_AllowListMembership ==
    \A a \in ProbeAddrs \cup ClientAddrs :
        /\ allowed_ip_ranges = <<>> => check_ip_allowed(a)
        /\ allowed_ip_ranges # <<>> => (check_ip_allowed(a) <=> InSomeRange(a))

\* With two ranges configured, a request from an address inside the second
\* range only got past the address check.
C9_Witness ==
    /\ last.op \in GateOps
    /\ Len(allowed_ip_ranges) = 2
    /\ ip_address(last.req.remote_addr).ok
    /\ ~Covers(allowed_ip_ranges[1], ip_address(last.req.remote_addr))
    /\ Covers(allowed_ip_ranges[2], ip_address(last.req.remote_addr))
    /\ Len(last.checks) > 1

\* C10 as stated: a request whose address does not parse is denied
\* AddressNotAllowed, whatever the configuration.
C10_UnparseableAlwaysDenied ==
    (last.op \in GateOps /\ ~ip_address(last.req.remote_addr).ok)
        => Decision(last) = "AddressNotAllowed"

\* C10, amended: when at least one range is configured, an address that does
\* not parse is not permitted by check_ip_allowed and the request is denied
\* AddressNotAllowed.
C10_UnparseableDeniedWhenRestricted ==
    /\ \A a \in ProbeAddrs \cup ClientAddrs :
           (allowed_ip_ranges # <<>> /\ ~ip_address(a).ok) => ~check_ip_allowed(a)
    /\ (last.op \in GateOps /\ allowed_ip_ranges # <<>> /\ ~ip_address(last.req.remote_addr).ok)
           => Decision(last) = "AddressNotAllowed"

\* With a range configured, a request without a parseable address was denied
\* AddressNotAllowed.
C10_Witness ==
    /\ last.op \in GateOps
    /\ allowed_ip_ranges # <<>>
    /\ ~ip_address(last.req.remote_addr).ok
    /\ Decision(last) = "AddressNotAllowed"


\* The admissions of address a still on the log.
AdmittedIn(a) == IF a \in DOMAIN admitted THEN admitted[a] ELSE <<>>

\* C4: a call is turned away only when MAX_REQUESTS earlier calls of its address
\* were admitted less than RATE_LIMIT_WINDOW ago, and a call that finds that many
\* is turned away: from no history, the first MAX_REQUESTS calls made within
\* less than a window are all admitted and the next one, made while all of them
\* are younger than the window, is limited.
C4_BudgetThenLimited ==
    last.op = "is_rate_limited" =>
        LET mine == AdmittedIn(last.req.remote_addr) IN
        /\ last.limited => Len(mine) >= MAX_REQUESTS
        /\ ~last.limited => /\ Len(mine) \in 1..MAX_REQUESTS
                            /\ mine[Len(mine)] = now

\* MAX_REQUESTS = 2 calls were admitted at two different clock values inside one
\* window and the call after them was limited.
C4_Witness ==
    /\ last.op = "is_rate_limited"
    /\ last.limited
    /\ MAX_REQUESTS = 2
    /\ AdmittedIn(last.req.remote_addr) = <<now - 1, now>>

\* C5: at every moment and for every address, at most MAX_REQUESTS calls were
\* admitted with a timestamp among the last RATE_LIMIT_WINDOW clock values.  As
\* the moment ranges over all clock values these are all the windows of
\* RATE_LIMIT_WINDOW consecutive clock values [s, s + W), wherever they start.
C5_AtMostNPerRollingWindow ==
    \A a \in DOMAIN admitted :
        Cardinality({ i \in DOMAIN admitted[a] : now - admitted[a][i] < RATE_LIMIT_WINDOW })
            <= MAX_REQUESTS

\* An address used its whole budget across a multiple of the window length: its
\* admissions straddle the boundary a fixed-window counter would reset at.
C5_Witness ==
    \E a \in DOMAIN admitted :
        /\ Len(admitted[a]) = MAX_REQUESTS
        /\ MAX_REQUESTS = 2
        /\ RATE_LIMIT_WINDOW = 2
        /\ admitted[a] = <<1, 2>>
        /\ a \in limited_ever
        /\ last.limited

\* C6: a call made when every recorded timestamp of its address is at least
\* RATE_LIMIT_WINDOW old is admitted, also for an address that was limited
\* before: the limiter never locks an address out for good.
C6_NoPermanentLockout ==
    [][ \A a \in LimiterAddrs :
            ( /\ last'.op = "is_rate_limited"
              /\ last'.req.remote_addr = a
              /\ InWindow(request_history, a, now) = {} )
            => ~last'.limited ]_vars

\* An address that had been limited waited out its window and was admitted
\* again; its list holds the new timestamp only.
C6_Witness ==
    /\ last.op = "is_rate_limited"
    /\ ~last.limited
    /\ last.req.remote_addr \in limited_ever
    /\ request_history[last.req.remote_addr] = <<now>>


\* The credential app.py's gate accepts.
AppCredential(auth) ==
    auth.present /\ auth.username = API_USERNAME /\ auth.password = API_PASSWORD

\* C3: on every route of the application, the view function runs only for a
\* request that passed the allow-list, the rate limit and authentication.
C3_EveryRouteGated ==
    (last.op \in Rules /\ last.called) =>
        /\ PermittedAddress(last.req.remote_addr)
        /\ ~last.over_budget
        /\ AppCredential(last.req.authorization)
        /\ last.checks = <<"address", "rate", "authentication">>

\* C8: concurrent is_rate_limited calls behave as one indivisible step each: an
\* address never has more than MAX_REQUESTS admissions younger than the window,
\* and every admitted timestamp younger than the window is in its list.
C8_CallsIndivisible ==
    \A a \in DOMAIN admitted :
        /\ Cardinality({ i \in DOMAIN admitted[a] : now - admitted[a][i] < RATE_LIMIT_WINDOW })
               <= MAX_REQUESTS
        /\ \A x \in { admitted[a][i] : i \in DOMAIN admitted[a] } :
               now - x < RATE_LIMIT_WINDOW =>
                   /\ a \in DOMAIN request_history
                   /\ Cardinality({ i \in DOMAIN admitted[a] : admitted[a][i] = x })
                        <= Cardinality({ i \in DOMAIN request_history[a] :
                                            request_history[a][i] = x })


\* ------------------------------------------------------------- C11

\* The Authorization headers authenticate_user is probed with: none, each
\* configured pair, a known identifier with another's secret or none, an
\* unknown identifier, and case variants of the known identifiers.
ProbeCredentials ==
    Credentials \cup
    { BasicAuth("Admin", "apw"), BasicAuth("ADMIN", "apw"), BasicAuth("Viewer", "vpw"),
      BasicAuth("viewer", "apw"), BasicAuth("viewer", ""), BasicAuth("", "") }

\* The principal configured under exactly the presented identifier with exactly
\* the presented secret, if there is one.
Matching(auth) ==
    { u \in DOMAIN USERS :
        auth.present /\ u = auth.username /\ USERS[u].password = auth.password }

\* C11: authenticate_user fails, with no principal, on a missing credential, an
\* unknown identifier (a case variant of a known one included) and a known
\* identifier with another secret; on a known identifier with its own secret it
\* returns that principal with the role configured for the identifier.
C11_AuthenticateUser ==
    \A auth \in ProbeCredentials :
        LET r == authenticate_user(auth) IN
        IF Matching(auth) = {}
        THEN ~r.authenticated /\ r.user_data = NoUser
        ELSE /\ r.authenticated
             /\ r.user_data.username = auth.username
             /\ \A u \in Matching(auth) : r.user_data.role = USERS[u].role
             /\ r.user_data.role \in {ROLE_ADMIN, ROLE_VIEWER}

\* A viewer's request was authenticated as the viewer, while the same
\* identifier in another case is configured nowhere.
C11_Witness ==
    /\ last.op = "requires_auth"
    /\ last.called
    /\ last.req.authorization = BasicAuth("viewer", "vpw")
    /\ last.user_data = [username |-> "viewer", role |-> ROLE_VIEWER]
    /\ "Viewer" \notin DOMAIN USERS
    /\ ~authenticate_user(BasicAuth("admin", "vpw")).authenticated


\* ------------------------------------------------------------- C12

\* The request of call l got as far as an authenticated principal.
Authenticated(l) ==
    /\ PermittedAddress(l.req.remote_addr)
    /\ ~l.over_budget
    /\ ValidCredential(l.req.authorization)

\* The role configured for the identifier a request presents.
ConfiguredRole(auth) == USERS[auth.username].role

\* C12: behind requires_admin an authenticated principal is permitted only as
\* an Administrator, and a Viewer is denied Forbidden; behind requires_auth,
\* which declares no role, every authenticated principal is permitted,
\* Administrator or Viewer.
C12_RoleDecidesAdminOnly ==
    (last.op \in GateOps /\ Authenticated(last)) =>
        LET role == ConfiguredRole(last.req.authorization) IN
        /\ role \in {ROLE_ADMIN, ROLE_VIEWER}
        /\ last.user_data.role = role
        /\ last.op = "requires_admin" =>
               /\ Decision(last) = "Permit" <=> role = ROLE_ADMIN
               /\ role = ROLE_VIEWER => Decision(last) = "Forbidden"
        /\ last.op = "requires_auth" => Decision(last) = "Permit"

\* An authenticated Viewer was denied Forbidden on an admin-only operation.
C12_Witness ==
    /\ last.op = "requires_admin"
    /\ Authenticated(last)
    /\ last.user_data.role = ROLE_VIEWER
    /\ Decision(last) = "Forbidden"
    /\ ~last.called


\* ------------------------------------------------------------- C13

\* The status and the WWW-Authenticate value each Deny reason is to come with.
DenyResponse(reason) ==
    CASE reason = "AddressNotAllowed" -> [status |-> 403, challenge |-> ""]
      [] reason = "RateLimited" -> [status |-> 429, challenge |-> ""]
      [] reason = "Unauthenticated" ->
             [status |-> 401, challenge |-> "Basic realm=\"Sensor API\""]
      [] reason = "Forbidden" -> [status |-> 403, challenge |-> ""]

\* C13: a denied request is answered 403 for AddressNotAllowed, 429 for
\* RateLimited, 401 with a WWW-Authenticate challenge of the Basic scheme for
\* Unauthenticated (header missing or credential wrong), 403 for Forbidden, and
\* with nothing else; the other three carry no challenge.
C13_DenyReasonFixesResponse ==
    (last.op \in GateOps /\ ~last.called) =>
        /\ FirstFailure(last) \in
               {"AddressNotAllowed", "RateLimited", "Unauthenticated", "Forbidden"}
        /\ last.ret.tuple
        /\ last.ret.status = DenyResponse(FirstFailure(last)).status
        /\ last.ret.challenge = DenyResponse(FirstFailure(last)).challenge

\* A request without an Authorization header was answered 401 with the
\* challenge.
C13_Witness ==
    /\ last.op \in GateOps
    /\ ~last.called
    /\ ~last.req.authorization.present
    /\ last.ret.status = 401
    /\ last.ret.challenge = "Basic realm=\"Sensor API\""


\* ------------------------------------------------------------- C14

\* The text by which a logged line tells the step that failed.
StepText(reason) ==
    CASE reason = "AddressNotAllowed" -> "Blocked request from unauthorized IP: {ip_addr}"
      [] reason = "RateLimited" -> "Rate limited request from IP: {ip_addr}"
      [] reason = "Unauthenticated" -> "Failed authentication attempt from {ip_addr}"
      [] reason = "Forbidden" ->
             "Access denied: User {username} attempted to access admin-only resource"
      [] OTHER -> ""

\* The values a logged line carries.
Logged(line) ==
    { line.ip_addrs[i] : i \in DOMAIN line.ip_addrs }

LoggedNames(line) ==
    { line.usernames[i] : i \in DOMAIN line.usernames }

\* C14: every Deny, whichever of the four steps produced it, writes a log line
\* that carries the address the request came from and tells the failing step,
\* and no line the gate writes carries the secret the request presented.
C14_EveryDenyLoggedWithAddress ==
    last.op \in GateOps =>
        /\ ~last.called =>
               \E i \in DOMAIN last.log :
                   /\ last.req.remote_addr \in Logged(last.log[i])
                   /\ last.log[i].text = StepText(FirstFailure(last))
        /\ \A i \in DOMAIN last.log :
               last.req.authorization.present =>
                   last.req.authorization.password \notin LoggedNames(last.log[i])


\* ------------------------------------------------------------- C15

Decisions == {"Permit", "AddressNotAllowed", "RateLimited", "Unauthenticated", "Forbidden"}

\* C15: every call of the gate, whatever the request (an address that is
\* missing or does not parse, no Authorization header, no principal configured),
\* ends in exactly one Decision, Permit or one of the four Deny reasons: the
\* protected operation ran and its response is returned, or it did not run and
\* one of the error responses is; each check was evaluated at most once.
C15_ExactlyOneDecision ==
    last.op \in GateOps =>
        /\ Decision(last) \in Decisions
        /\ last.called => last.ret = ViewResponse
        /\ ~last.called => last.ret.tuple /\ last.ret.status \in {401, 403, 429}
        /\ last.checks # <<>>
        /\ \A i, j \in DOMAIN last.checks : last.checks[i] = last.checks[j] => i = j

\* With no principal configured, a request with no address and no
\* Authorization header got its Decision.
C15_Witness ==
    /\ last.op \in GateOps
    /\ USERS = NoUsers
    /\ last.req = NoRequest
    /\ Decision(last) \in Decisions \ {"Permit"}


\* ------------------------------------------------------------- C16

\* The step is one call of is_rate_limited, for address a.
IsRateCall(a) ==
    /\ last'.op = "is_rate_limited"
    /\ last'.req.remote_addr = a
    /\ now' = now

\* The list of a before the step (none is the empty list).
ListBefore(a) == IF a \in DOMAIN request_history THEN request_history[a] ELSE <<>>

\* stamps without its entries of age RATE_LIMIT_WINDOW or more at t, or
\* without those of a greater age only.
Unexpired(stamps, t, strict) ==
    SelectSeq(stamps, LAMBDA x :
        t - x < RATE_LIMIT_WINDOW \/ (~strict /\ t - x = RATE_LIMIT_WINDOW))

\* C16: a limited call does not record its own timestamp: it leaves the
\* address's list as it was but for the expired entries; and a call made when
\* the oldest recorded timestamp has aged out is admitted, however often the
\* address was limited in between.
C16_LimitedCallNotRecorded ==
    [][\A a \in LimiterAddrs :
        IsRateCall(a) =>
            /\ last'.limited =>
                   \E strict \in BOOLEAN :
                       request_history'[a] = Unexpired(ListBefore(a), now, strict)
            /\ (ListBefore(a) # <<>> /\ now - ListBefore(a)[1] > RATE_LIMIT_WINDOW) =>
                   ~last'.limited]_vars

\* A call was limited at a clock value later than every timestamp of its
\* address, and the list holds those MAX_REQUESTS timestamps and no other.
C16_Witness ==
    /\ last.op = "is_rate_limited"
    /\ last.limited
    /\ last.req.remote_addr \in DOMAIN request_history
    /\ Len(request_history[last.req.remote_addr]) = MAX_REQUESTS
    /\ \A i \in DOMAIN request_history[last.req.remote_addr] :
           request_history[last.req.remote_addr][i] < now

\* ------------------------------------------------------------- C17

\* C17: a call for an address with history removes from the address's list
\* exactly the timestamps older than now - RATE_LIMIT_WINDOW and keeps every
\* other one, a timestamp exactly RATE_LIMIT_WINDOW old included, in their
\* order (the call's own timestamp may follow them).
C17_PruneDropsOnlyOlder ==
    [][\A a \in LimiterAddrs :
        (IsRateCall(a) /\ a \in DOMAIN request_history) =>
            LET kept == SelectSeq(request_history[a],
                                  LAMBDA x : ~(x < now - RATE_LIMIT_WINDOW)) IN
            /\ Len(request_history'[a]) \in {Len(kept), Len(kept) + 1}
            /\ SubSeq(request_history'[a], 1, Len(kept)) = kept]_vars

\* ------------------------------------------------------------- C18

\* The timestamps of list stamps that are older than t - RATE_LIMIT_WINDOW.
Stale(stamps, t) ==
    { i \in DOMAIN stamps : stamps[i] < t - RATE_LIMIT_WINDOW }

\* C18: right after a call of is_rate_limited for an address, the address's
\* list holds no timestamp older than now - RATE_LIMIT_WINDOW.  (Lists of other
\* addresses may: the witness is such a state.)
C18_NoStaleAfterCall ==
    last.op = "is_rate_limited" =>
        /\ last.req.remote_addr \in DOMAIN request_history
        /\ Stale(request_history[last.req.remote_addr], now) = {}

\* Right after a call for one address, the list of another address, not
\* called since, holds a timestamp older than the window.
C18_Witness ==
    /\ last.op = "is_rate_limited"
    /\ Stale(request_history[last.req.remote_addr], now) = {}
    /\ request_history[last.req.remote_addr] # <<>>
    /\ \E b \in DOMAIN request_history \ {last.req.remote_addr} :
           Stale(request_history[b], now) # {}


\* ------------------------------------------------------------- C19

\* The timestamps of list stamps that are later than clock value t.
Later(stamps, t) == SelectSeq(stamps, LAMBDA x : x > t)

\* C19: a call whose clock value is earlier than timestamps already recorded
\* for its address discards none of those later timestamps, and it admits the
\* request only if, those records counted, fewer than MAX_REQUESTS timestamps
\* of the address are younger than the window: the step back admits nothing
\* that the intact records would have limited.
C19_BackwardClockKeepsLater ==
    [][\A a \in LimiterAddrs :
        (IsRateCall(a) /\ Later(ListBefore(a), now) # <<>>) =>
            /\ Later(request_history'[a], now) = Later(ListBefore(a), now)
            /\ ~last'.limited =>
                   /\ Len(Later(ListBefore(a), now)) < MAX_REQUESTS
                   /\ Len(Unexpired(ListBefore(a), now, TRUE)) < MAX_REQUESTS]_vars

\* After the clock stepped back, a call was limited by timestamps later than
\* its own clock value, all of them still on the list.
C19_Witness ==
    /\ last.op = "is_rate_limited"
    /\ last.limited
    /\ Len(Later(request_history[last.req.remote_addr], now)) = MAX_REQUESTS
    /\ \E i \in DOMAIN request_history[last.req.remote_addr] :
           request_history[last.req.remote_addr][i] - now >= RATE_LIMIT_WINDOW

\* ------------------------------------------------------------- C20

\* C20: a call of is_rate_limited for one address leaves the list of every
\* other address as it was, and no step, a call or the passing of time, takes
\* an address's entry out of the table or prunes the list of an address that
\* is not being called: a silent address keeps its entry.
C20_OtherAddressesUntouched ==
    [][/\ DOMAIN request_history \subseteq DOMAIN request_history'
       /\ \A b \in DOMAIN request_history :
              ~IsRateCall(b) => request_history'[b] = request_history[b]]_vars

\* After a call for one address, another address that was admitted earlier
\* and has been silent for longer than the window still has its whole list.
C20_Witness ==
    /\ last.op = "is_rate_limited"
    /\ \E b \in DOMAIN request_history \ {last.req.remote_addr} :
           /\ Len(request_history[b]) = MAX_REQUESTS
           /\ Stale(request_history[b], now) = DOMAIN request_history[b]
           /\ b \notin DOMAIN admitted \/ admitted[b] = <<>>


\* ------------------------------------------------------------- C21

\* The request req with the Authorization header auth in place of its own.
WithAuth(req, auth) == [req EXCEPT !.authorization = auth]

\* C21: what a request that fails authentication is answered does not depend on
\* how it fails: from one address, in one state of the table, a request with an
\* unknown identifier or with a known identifier and another secret gets the
\* value (status, body, headers) that a request with no header at all gets, from
\* requires_auth and from requires_admin.
C21_UnauthenticatedAllAlike ==
    \A a \in ClientAddrs :
    \A bare \in { [remote_addr |-> a, authorization |-> NoAuth] } :
    \A plain \in { requires_auth(bare, request_history, now, ViewResponse).ret } :
    \A admin \in { requires_admin(bare, request_history, now, ViewResponse).ret } :
    \A auth \in Credentials \ {NoAuth} :
        ~ValidCredential(auth) =>
            /\ requires_auth(WithAuth(bare, auth), request_history, now, ViewResponse).ret
                   = plain
            /\ requires_admin(WithAuth(bare, auth), request_history, now, ViewResponse).ret
                   = admin

\* A request with an unknown identifier was answered 401, and in the state it
\* was answered in, a request with the administrator's identifier and another
\* secret is neither accepted.
C21_Witness ==
    /\ last.op \in GateOps
    /\ last.req.authorization = BasicAuth("ghost", "apw")
    /\ last.ret = ErrorResponse(401, "Authentication required", BasicChallenge)
    /\ "admin" \in DOMAIN USERS
    /\ ~ValidCredential(BasicAuth("admin", "vpw"))


\* ------------------------------------------------------------- C22

\* The denials of address a that the observer has on its log.
DenialsOf(a) == IF a \in DOMAIN denials THEN denials[a] ELSE <<>>

\* C22: a request turned away Unauthenticated or Forbidden has its timestamp
\* recorded like an admitted one, each such denial of the window being a
\* timestamp on the address's list; and once MAX_REQUESTS of them lie within the
\* window, a request of that address with the administrator's valid
\* credentials is denied RateLimited.
C22_DenialsSpendBudget ==
    last.op \in GateOps =>
        LET a == last.req.remote_addr IN
        /\ Decision(last) \in {"Unauthenticated", "Forbidden"} =>
               /\ a \in DOMAIN request_history
               /\ request_history[a] # <<>>
               /\ request_history[a][Len(request_history[a])] = now
               /\ Len(DenialsOf(a)) <= Len(request_history[a])
               /\ \A i \in DOMAIN DenialsOf(a) :
                      \E j \in DOMAIN request_history[a] :
                          request_history[a][j] = DenialsOf(a)[i]
        /\ (/\ ValidCredential(last.req.authorization)
            /\ IsAdministrator(last.req.authorization)
            /\ Len(DenialsOf(a)) >= MAX_REQUESTS) =>
               Decision(last) = "RateLimited"

\* With two denials of the address within the window and nothing else on its
\* list, the administrator's request from it was denied RateLimited.
C22_Witness ==
    /\ last.op = "requires_admin"
    /\ last.req.authorization = BasicAuth("admin", "apw")
    /\ Decision(last) = "RateLimited"
    /\ MAX_REQUESTS = 2
    /\ Len(DenialsOf(last.req.remote_addr)) = 2
    /\ request_history[last.req.remote_addr] = DenialsOf(last.req.remote_addr)

\* ------------------------------------------------------------- C23

\* A range expression that ipaddress accepts: a well-formed IPv4 or IPv6
\* address and a prefix no longer than the address.
ValidRange(expr) ==
    \E version \in {4, 6} :
        /\ expr.addr.sep = (IF version = 4 THEN "." ELSE ":")
        /\ Len(expr.addr.parts) = GroupsOf(version)
        /\ \A i \in DOMAIN expr.addr.parts : expr.addr.parts[i] \in 0..(Pow2(GroupBits) - 1)
        /\ expr.plen \in 0..(GroupsOf(version) * GroupBits)

\* The values of ALLOWED_IPS all of whose expressions are invalid.
AllInvalidEnvs ==
    { e \in AllowedIpsEnvs : e # <<>> /\ \A i \in DOMAIN e : ~ValidRange(e[i]) }

\* C23: loading ALLOWED_IPS keeps as many ranges as there are valid
\* expressions, whatever else the value holds; a value of invalid expressions
\* only loads as the unset value does, and a gate so configured turns no
\* request away for its address.
C23_AllInvalidIsEmpty ==
    /\ \A e \in AllowedIpsEnvs :
           Len(LoadRanges(e)) = Cardinality({ i \in DOMAIN e : ValidRange(e[i]) })
    /\ \A e \in AllInvalidEnvs : LoadRanges(e) = LoadRanges(<<>>)
    /\ \A e \in AllInvalidEnvs :
           (allowed_ip_ranges = LoadRanges(e) /\ last.op \in GateOps) =>
               /\ check_ip_allowed(last.req.remote_addr)
               /\ Decision(last) # "AddressNotAllowed"
               /\ Len(last.checks) > 1

\* Under a value of ALLOWED_IPS with invalid expressions only, a request with
\* no address got past the address check.
C23_Witness ==
    /\ AllInvalidEnvs # {}
    /\ \E e \in AllInvalidEnvs : allowed_ip_ranges = LoadRanges(e)
    /\ last.op \in GateOps
    /\ last.req.remote_addr = NoAddr
    /\ Len(last.checks) > 1


\* ------------------------------------------------------------- C24

\* C24: app.py's requires_auth, the gate on the routes, and auth.py's
\* requires_auth return the same for every request under one configuration
\* and one table: the same response, the view run by both or by neither, the
\* same table afterwards; the configured viewer's request is let through by
\* both.
C24_InstalledGateAgrees ==
    \A req \in Requests :
        LET installed == app_requires_auth(req, app_request_history, now, ViewResponse)
            gatekeeper == requires_auth(req, app_request_history, now, ViewResponse) IN
        /\ installed.ret = gatekeeper.ret
        /\ installed.called = gatekeeper.called
        /\ installed.history = gatekeeper.history

\* ------------------------------------------------------------- C25

\* C25: the requests of one address are counted against one list, whichever
\* worker process takes them: over the whole service, no address has more than
\* MAX_REQUESTS requests past the rate check within a window.
C25_OneBudgetServiceWide ==
    \A a \in DOMAIN admitted : Len(admitted[a]) <= MAX_REQUESTS

====
